---- MODULE Spec2Model ----
(***************************************************************************)
(* Nova-Core relay server (src/main.py): four POST endpoints /stt, /chat,  *)
(* /tts, /nova and GET /, two helpers (save_uploaded_file,                 *)
(* text_to_speech_file), the temp directory, and the external providers    *)
(* (transcription, chat completion, speech synthesis, the filesystem) as   *)
(* nondeterministic outcomes.                                              *)
(***************************************************************************)
EXTENDS Integers, Sequences, FiniteSets, TLC

\* Number of uuid.uuid4() tokens the model hands out (each saved upload and
\* each synthesized file takes one).
MaxUuid == 3

VARIABLES apiKey, disk, uuid, req

vars == <<apiKey, disk, uuid, req>>

\* Requests in flight.  Handlers share nothing but UPLOAD_DIR, where every
\* request writes and removes only names holding its own uuid tokens, so the
\* requests are taken one after another; disk and uuid carry over.
Workers == {"w1"}

(***************************************************************************)
(* Python values.  A text is a sequence of characters; " " is whitespace.  *)
(***************************************************************************)
PyNone == [t |-> "none", v |-> <<>>]
PyStr(s) == [t |-> "str", v |-> s]
\* marks a key that a mapping does not hold / an attribute an object lacks
Absent == [t |-> "absent", v |-> <<>>]
EmptyStr == PyStr(<<>>)

\* Python truthiness of None and str
Truthy(x) == x.t = "str" /\ x.v # <<>>

\* a or b
PyOr(a, b) == IF Truthy(a) THEN a ELSE b

\* d.get(k): None when the key is absent
DictGet(field) == IF field = Absent THEN PyNone ELSE field

\* d.get(k, default)
DictGetDefault(field, default) == IF field = Absent THEN default ELSE field

RECURSIVE LStrip(_)
LStrip(s) == IF s # <<>> /\ Head(s) = " " THEN LStrip(Tail(s)) ELSE s

RECURSIVE RStrip(_)
RStrip(s) ==
    IF s # <<>> /\ s[Len(s)] = " " THEN RStrip(SubSeq(s, 1, Len(s) - 1)) ELSE s

\* str.strip()
Strip(s) == RStrip(LStrip(s))

(***************************************************************************)
(* Files of UPLOAD_DIR.  A name is prefix + uuid token + suffix.           *)
(***************************************************************************)
NoFile == [pre |-> <<>>, tok |-> 0, suf |-> <<>>]

\* f"{uuid.uuid4().hex}_{filename}"
UploadName(tok, filename) == [pre |-> <<>>, tok |-> tok, suf |-> <<"_">> \o filename]

\* f"{prefix}_{uuid.uuid4().hex}.mp3"
Mp3Name(prefix, tok) == [pre |-> <<prefix, "_">>, tok |-> tok, suf |-> <<".mp3">>]

IsMp3(f) == f.suf = <<".mp3">> /\ f.pre # <<>>

\* Outcome of a filesystem removal: done, or refused by the OS (raises OSError
\* and leaves the file).
RmOutcomes == {"ok", "refused"}


\* a removal that reports success and unlinks nothing
OsRemove_Noop(d, path, rm) == d

\* os.remove(path)
OsRemove(d, path, rm) == IF rm = "ok" THEN d \ {path} ELSE d

(***************************************************************************)
(* HTTP responses.                                                         *)
(***************************************************************************)
NoResp ==
    [kind |-> "none", status |-> 0, error |-> "", detail |-> "",
     text |-> Absent, reply |-> Absent, audio |-> NoFile, header |-> NoFile]

\* jsonify({"error": e, "detail": d}), status
JsonError(status, e, d) ==
    [NoResp EXCEPT !.kind = "json", !.status = status, !.error = e, !.detail = d]

\* jsonify({"text": text})
JsonText(text) == [NoResp EXCEPT !.kind = "json", !.status = 200, !.text = text]

\* jsonify({"reply": reply})
JsonReply(reply) == [NoResp EXCEPT !.kind = "json", !.status = 200, !.reply = reply]

\* make_response(send_file(mp3_path, mimetype="audio/mpeg")) with X-Reply-Filename
FileResp(path, name) ==
    [NoResp EXCEPT !.kind = "file", !.status = 200, !.audio = path, !.header = name]

\* An exception that leaves the view function: the framework answers with its
\* own 500 page, not with a JSON error of the handler.
Unhandled(what) ==
    [NoResp EXCEPT !.kind = "unhandled", !.status = 500, !.detail = what]

(***************************************************************************)
(* Request inputs.                                                         *)
(***************************************************************************)
\* Multipart uploads: whether the form holds the field "file", and the
\* filename the client declared (a sequence of name parts, "." separating).
Filenames == {<<>>, <<"a", ".", "WAV">>, <<"noext">>}

Uploads == [hasField : BOOLEAN, filename : Filenames]

\* str.lower() on the name parts the model uses
Lower(c) == IF c = "WAV" THEN "wav" ELSE c

RECURSIVE LastDot(_)
\* index of the last "." of a filename, 0 when it has none
LastDot(s) ==
    IF s = <<>> THEN 0
    ELSE IF s[Len(s)] = "." THEN Len(s)
    ELSE LastDot(SubSeq(s, 1, Len(s) - 1))

\* filename.rsplit(".", 1)[-1].lower() if "." in filename else ""
Ext(filename) ==
    IF LastDot(filename) = 0 THEN <<>>
    ELSE [i \in 1..(Len(filename) - LastDot(filename)) |->
              Lower(filename[LastDot(filename) + i])]

\* Outcome of writing a file (FileStorage.save, gTTS.save): written, failed
\* before anything was created, failed leaving a partial file.
WriteOutcomes == {"ok", "fail_clean", "fail_partial"}


\* the upload written before the filename is looked at
SaveUploadedFile_SaveFirst(up, allowed, tok, fs) ==
    IF ~up.hasField
    THEN [ok |-> FALSE, detail |-> "No file field in request", path |-> NoFile, wrote |-> {},
          drew |-> FALSE]
    ELSE IF up.filename = <<>>
    THEN [ok |-> FALSE, detail |-> "Empty filename", path |-> NoFile,
          wrote |-> {UploadName(tok, up.filename)}, drew |-> TRUE]
    ELSE [ok |-> fs = "ok", detail |-> IF fs = "ok" THEN "" ELSE "save error",
          path |-> IF fs = "ok" THEN UploadName(tok, up.filename) ELSE NoFile,
          wrote |-> IF fs = "fail_clean" THEN {} ELSE {UploadName(tok, up.filename)},
          drew |-> TRUE]

\* save_uploaded_file("file", allowed_exts): allowed is the allow-list, {} for
\* None.  Returns whether it returned a path, the error text otherwise, the
\* path, the files it created, and whether it drew a uuid.
SaveUploadedFile(up, allowed, tok, fs) ==
    IF ~up.hasField
    THEN [ok |-> FALSE, detail |-> "No file field in request", path |-> NoFile, wrote |-> {},
          drew |-> FALSE]
    ELSE IF up.filename = <<>>
    THEN [ok |-> FALSE, detail |-> "Empty filename", path |-> NoFile, wrote |-> {},
          drew |-> FALSE]
    ELSE IF allowed # {} /\ Ext(up.filename) \notin allowed
    THEN [ok |-> FALSE, detail |-> "Extension not allowed", path |-> NoFile, wrote |-> {},
          drew |-> FALSE]
    ELSE IF fs = "ok"
    THEN [ok |-> TRUE, detail |-> "", path |-> UploadName(tok, up.filename),
          wrote |-> {UploadName(tok, up.filename)}, drew |-> TRUE]
    ELSE [ok |-> FALSE, detail |-> "save error", path |-> NoFile,
          wrote |-> IF fs = "fail_partial" THEN {UploadName(tok, up.filename)} ELSE {},
          drew |-> TRUE]

\* text_to_speech_file(text, lang, prefix): returns (out_path, safe_name), or
\* raises when the synthesis provider or the write fails.
TextToSpeechFile(prefix, tok, o) ==
    IF o = "ok"
    THEN [ok |-> TRUE, path |-> Mp3Name(prefix, tok), name |-> Mp3Name(prefix, tok),
          wrote |-> {Mp3Name(prefix, tok)}]
    ELSE [ok |-> FALSE, path |-> NoFile, name |-> NoFile,
          wrote |-> IF o = "fail_partial" THEN {Mp3Name(prefix, tok)} ELSE {}]

\* JSON request bodies of /chat and /tts: no body, a body that is not JSON, a
\* JSON array of n elements, or a JSON object with optional "text" and an
\* optional second field ("system" for /chat, "lang" for /tts).
NoBody == [raw |-> "none", n |-> 0, text |-> Absent, opt |-> Absent]

Texts == {Absent, PyNone, EmptyStr, PyStr(<<"h", "i">>)}

Bodies(opts) ==
    {[NoBody EXCEPT !.raw = r] : r \in {"missing", "invalid"}}
    \cup {[NoBody EXCEPT !.raw = "list", !.n = k] : k \in {0, 1}}
    \cup {[NoBody EXCEPT !.raw = "dict", !.text = t, !.opt = o] : t \in Texts, o \in opts}

\* request.get_json(force=True, silent=True) or {}
\* None (no body, parse error) and falsy JSON values become the empty mapping.
GetJsonOrEmpty(body) ==
    IF body.raw \in {"missing", "invalid"} THEN [NoBody EXCEPT !.raw = "dict"]
    ELSE IF body.raw = "list" /\ body.n = 0 THEN [NoBody EXCEPT !.raw = "dict"]
    ELSE body

\* data.get(...) exists only on a mapping: AttributeError otherwise
HasGet(data) == data.raw = "dict"

(***************************************************************************)
(* Provider responses.                                                     *)
(***************************************************************************)
NoSttResp == [kind |-> "none", text |-> Absent, transcript |-> Absent]

\* What openai.Audio.transcriptions.create may return: a mapping or an object
\* with attributes, holding "text", "transcript", both or neither.
SttResps ==
    [kind : {"dict", "obj"},
     text : {Absent, EmptyStr, PyStr(<<"h", "i">>)},
     transcript : {Absent, PyStr(<<"y", "o">>)}]

\* The call raised, or returned one of the responses.
Raise == [kind |-> "raise", text |-> Absent, transcript |-> Absent]

SttOutcomes == SttResps \cup {Raise}

\* lines 70-72 of stt
SttText(resp) ==
    LET text == IF resp.kind = "dict" THEN DictGet(resp.text)
                ELSE DictGetDefault(resp.text, PyNone)      \* getattr(resp, 'text', None)
    IN  IF ~Truthy(text)
        THEN IF resp.kind = "dict" THEN DictGet(resp.transcript) ELSE EmptyStr
        ELSE text

\* line 156 of nova_pipeline: stt_resp.get needs a mapping
NovaTextRaises(resp) == resp.kind # "dict"


\* the trailing `or ""` left out
NovaText_NoDefault(resp) == PyOr(DictGet(resp.text), DictGet(resp.transcript))

NovaText(resp) == PyOr(PyOr(DictGet(resp.text), DictGet(resp.transcript)), EmptyStr)

\* What openai.chat.completions.create may yield: it raises (or the response
\* lacks choices[0].message.content), or the content is one of these strings.
ChatContents == {<<"o", "k">>, <<" ", "o", "k", " ">>, <<" ">>, <<>>}

ChatOutcomes == {PyNone} \cup {PyStr(c) : c \in ChatContents}

DefaultSystem == PyStr(<<"You are Nova, a calm and friendly AI assistant.">>)

NovaSystem == PyStr(<<"You are Nova, a smart, calm, and friendly AI assistant.">>)

DefaultLang == PyStr(<<"en">>)

(***************************************************************************)
(* Per-request state of a worker.                                          *)
(***************************************************************************)
NoCall == [api |-> "none", file |-> NoFile, arg |-> Absent, opt |-> Absent]

Idle ==
    [pc |-> "idle", ep |-> "none", body |-> NoBody, upfail |-> "",
     audio_path |-> NoFile, mp3_path |-> NoFile, stt_resp |-> NoSttResp,
     user_text |-> Absent, reply_text |-> Absent, calls |-> <<>>, wrote |-> {},
     opt |-> Absent, rmFailed |-> FALSE, failed |-> "none", pending |-> NoResp, resp |-> NoResp]

\* os.getenv("OPENAI_API_KEY"): unset, set to the empty string, or set
ApiKeys == {PyNone, EmptyStr, PyStr(<<"sk">>)}

Init ==
    /\ apiKey \in ApiKeys
    /\ disk = {}
    /\ uuid = 0
    /\ req = [w \in Workers |-> Idle]

Free(w) == req[w].pc \in {"idle", "done"}

Done(r, resp) == [r EXCEPT !.pc = "done", !.resp = resp]

(***************************************************************************)
(* POST /stt                                                               *)
(***************************************************************************)
\* lines 53-56: save the upload, or answer 400 upload_failed
SttUpload(w) ==
    /\ Free(w)
    /\ uuid < MaxUuid
    /\ \E up \in Uploads, fs \in WriteOutcomes :
         LET s == SaveUploadedFile(up, {}, uuid + 1, fs)
             r == [Idle EXCEPT !.ep = "stt", !.wrote = s.wrote]
         IN  /\ disk' = disk \cup s.wrote
             /\ uuid' = IF s.drew THEN uuid + 1 ELSE uuid
             /\ req' = [req EXCEPT ![w] =
                  IF s.ok THEN [r EXCEPT !.pc = "stt_key", !.audio_path = s.path]
                  ELSE Done([r EXCEPT !.upfail = s.detail],
                            JsonError(400, "upload_failed", s.detail))]
    /\ UNCHANGED apiKey

\* lines 59-61: without a key remove the upload and answer 500 no_api_key
SttKeyCheck(w) ==
    /\ req[w].pc = "stt_key"
    /\ IF ~Truthy(apiKey)
       THEN \E rm \in RmOutcomes :
              /\ disk' = OsRemove(disk, req[w].audio_path, rm)
              /\ req' = [req EXCEPT ![w] =
                   IF rm = "ok"
                   THEN Done(@, JsonError(500, "no_api_key", "OPENAI_API_KEY not configured on server."))
                   ELSE Done([@ EXCEPT !.rmFailed = TRUE], Unhandled("OSError"))]
       ELSE /\ req' = [req EXCEPT ![w].pc = "stt_call"]
            /\ UNCHANGED disk
    /\ UNCHANGED <<apiKey, uuid>>

\* lines 63-78: transcribe, remove the upload, answer
SttTranscribe(w) ==
    /\ req[w].pc = "stt_call"
    /\ \E o \in SttOutcomes, rm \in RmOutcomes :
         LET r == [req[w] EXCEPT
                     !.calls = Append(@, [NoCall EXCEPT !.api = "stt", !.file = req[w].audio_path]),
                     !.stt_resp = o,
                     !.failed = IF o = Raise THEN "stt" ELSE "none",
                     !.rmFailed = (rm # "ok")]
         IN  /\ disk' = OsRemove(disk, req[w].audio_path, rm)
             /\ req' = [req EXCEPT ![w] =
                  IF rm # "ok" THEN Done(r, Unhandled("OSError"))
                  ELSE IF o = Raise
                  THEN Done(r, JsonError(500, "transcription_failed", "provider error"))
                  ELSE Done([r EXCEPT !.user_text = SttText(o)], JsonText(SttText(o)))]
    /\ UNCHANGED <<apiKey, uuid>>

(***************************************************************************)
(* POST /chat                                                              *)
(***************************************************************************)

\* the credential check left out
ChatPrecheck_NoKeyCheck(data, key) ==
    IF ~HasGet(data) THEN "attribute_error"
    ELSE IF DictGetDefault(data.text, EmptyStr) = EmptyStr THEN "no_text"
    ELSE "call"

\* lines 86-94: what chat does with the parsed body before the provider call
ChatPrecheck(data, key) ==
    IF ~HasGet(data) THEN "attribute_error"
    ELSE IF DictGetDefault(data.text, EmptyStr) = EmptyStr THEN "no_text"
    ELSE IF ~Truthy(key) THEN "no_api_key"
    ELSE "call"

ChatReceive(w) ==
    /\ Free(w)
    /\ \E body \in Bodies({Absent, PyStr(<<"be brief">>)}) :
         LET data == GetJsonOrEmpty(body)
             r == [Idle EXCEPT !.ep = "chat", !.body = body]
             c == ChatPrecheck(data, apiKey)
         IN  req' = [req EXCEPT ![w] =
               CASE c = "attribute_error" -> Done(r, Unhandled("AttributeError"))
                 [] c = "no_text" -> Done(r, JsonError(400, "no_text", ""))
                 [] c = "no_api_key" ->
                      Done(r, JsonError(500, "no_api_key", "OPENAI_API_KEY not configured."))
                 [] OTHER ->
                      [r EXCEPT !.pc = "chat_call",
                                !.user_text = DictGetDefault(data.text, EmptyStr),
                                !.opt = DictGetDefault(data.opt, DefaultSystem)]]
    /\ UNCHANGED <<apiKey, disk, uuid>>

\* lines 96-109
ChatCall(w) ==
    /\ req[w].pc = "chat_call"
    /\ \E o \in ChatOutcomes :
         LET r == [req[w] EXCEPT
                     !.calls = Append(@, [NoCall EXCEPT !.api = "chat",
                                                        !.arg = req[w].user_text,
                                                        !.opt = req[w].opt])]
         IN  req' = [req EXCEPT ![w] =
               IF o = PyNone
               THEN Done([r EXCEPT !.failed = "chat"],
                         JsonError(500, "chat_failed", "provider error"))
               ELSE Done([r EXCEPT !.reply_text = PyStr(Strip(o.v))],
                         JsonReply(PyStr(Strip(o.v))))]
    /\ UNCHANGED <<apiKey, disk, uuid>>

(***************************************************************************)
(* POST /tts                                                               *)
(***************************************************************************)
\* lines 117-122: "attribute_error", "no_text" or "call"
TtsPrecheck(data) ==
    IF ~HasGet(data) THEN "attribute_error"
    ELSE IF ~Truthy(DictGetDefault(data.text, EmptyStr)) THEN "no_text"
    ELSE "call"

TtsReceive(w) ==
    /\ Free(w)
    /\ \E body \in Bodies({Absent, PyStr(<<"bn">>)}) :
         LET data == GetJsonOrEmpty(body)
             r == [Idle EXCEPT !.ep = "tts", !.body = body]
             c == TtsPrecheck(data)
         IN  req' = [req EXCEPT ![w] =
               CASE c = "attribute_error" -> Done(r, Unhandled("AttributeError"))
                 [] c = "no_text" -> Done(r, JsonError(400, "no_text", ""))
                 [] OTHER ->
                      [r EXCEPT !.pc = "tts_call",
                                !.user_text = DictGetDefault(data.text, EmptyStr),
                                !.opt = DictGetDefault(data.opt, DefaultLang)]]
    /\ UNCHANGED <<apiKey, disk, uuid>>

\* lines 124-134: synthesize and send the file; the file stays on disk.  An
\* outcome "fail_partial" also stands for send_file failing after the write.
TtsSynth(w) ==
    /\ req[w].pc = "tts_call"
    /\ uuid < MaxUuid
    /\ \E o \in WriteOutcomes :
         LET t == TextToSpeechFile("g", uuid + 1, o)
             r == [req[w] EXCEPT
                     !.calls = Append(@, [NoCall EXCEPT !.api = "tts",
                                                        !.arg = req[w].user_text,
                                                        !.opt = req[w].opt]),
                     !.wrote = @ \cup t.wrote,
                     !.mp3_path = t.path]
         IN  /\ disk' = disk \cup t.wrote
             /\ req' = [req EXCEPT ![w] =
                  IF t.ok THEN Done(r, FileResp(t.path, t.name))
                  ELSE Done([r EXCEPT !.failed = "tts"],
                            JsonError(500, "tts_failed", "provider error"))]
    /\ uuid' = uuid + 1
    /\ UNCHANGED apiKey

(***************************************************************************)
(* POST /nova                                                              *)
(***************************************************************************)

\* the except clause handing back what the earlier stages produced
NovaExcept_Partial(r) ==
    [JsonError(500, "pipeline_failed", "provider error") EXCEPT !.text = r.user_text]

\* lines 174-175: the response of the except clause
NovaExcept(r) == JsonError(500, "pipeline_failed", "provider error")


\* the finally clause removing the synthesized file
CleanupTarget_Mp3(r) == r.mp3_path

\* lines 178-179: the file the finally clause looks for and removes
CleanupTarget(r) == r.audio_path

\* lines 143-146
NovaUpload(w) ==
    /\ Free(w)
    /\ uuid < MaxUuid
    /\ \E up \in Uploads, fs \in WriteOutcomes :
         LET s == SaveUploadedFile(up, {}, uuid + 1, fs)
             r == [Idle EXCEPT !.ep = "nova", !.wrote = s.wrote]
         IN  /\ disk' = disk \cup s.wrote
             /\ uuid' = IF s.drew THEN uuid + 1 ELSE uuid
             /\ req' = [req EXCEPT ![w] =
                  IF s.ok THEN [r EXCEPT !.pc = "nova_key", !.audio_path = s.path]
                  ELSE Done([r EXCEPT !.upfail = s.detail],
                            JsonError(400, "upload_failed", s.detail))]
    /\ UNCHANGED apiKey

\* lines 148-150 (outside the try: the finally clause does not run here)
NovaKeyCheck(w) ==
    /\ req[w].pc = "nova_key"
    /\ IF ~Truthy(apiKey)
       THEN \E rm \in RmOutcomes :
              /\ disk' = OsRemove(disk, req[w].audio_path, rm)
              /\ req' = [req EXCEPT ![w] =
                   IF rm = "ok"
                   THEN Done(@, JsonError(500, "no_api_key", "OPENAI_API_KEY not configured."))
                   ELSE Done([@ EXCEPT !.rmFailed = TRUE], Unhandled("OSError"))]
       ELSE /\ req' = [req EXCEPT ![w].pc = "nova_stt"]
            /\ UNCHANGED disk
    /\ UNCHANGED <<apiKey, uuid>>

\* lines 154-156
NovaTranscribe(w) ==
    /\ req[w].pc = "nova_stt"
    /\ \E o \in SttOutcomes :
         LET r == [req[w] EXCEPT
                     !.calls = Append(@, [NoCall EXCEPT !.api = "stt", !.file = req[w].audio_path]),
                     !.stt_resp = o]
         IN  req' = [req EXCEPT ![w] =
               IF o = Raise \/ NovaTextRaises(o)
               THEN [r EXCEPT !.pc = "nova_finally", !.failed = "stt", !.pending = NovaExcept(r)]
               ELSE [r EXCEPT !.pc = "nova_chat", !.user_text = NovaText(o)]]
    /\ UNCHANGED <<apiKey, disk, uuid>>

\* lines 158-167
NovaChat(w) ==
    /\ req[w].pc = "nova_chat"
    /\ \E o \in ChatOutcomes :
         LET r == [req[w] EXCEPT
                     !.calls = Append(@, [NoCall EXCEPT !.api = "chat",
                                                        !.arg = req[w].user_text,
                                                        !.opt = NovaSystem])]
         IN  req' = [req EXCEPT ![w] =
               IF o = PyNone
               THEN [r EXCEPT !.pc = "nova_finally", !.failed = "chat", !.pending = NovaExcept(r)]
               ELSE [r EXCEPT !.pc = "nova_tts", !.reply_text = PyStr(Strip(o.v))]]
    /\ UNCHANGED <<apiKey, disk, uuid>>

\* lines 169-173
NovaSynth(w) ==
    /\ req[w].pc = "nova_tts"
    /\ uuid < MaxUuid
    /\ \E o \in WriteOutcomes :
         LET t == TextToSpeechFile("reply", uuid + 1, o)
             r == [req[w] EXCEPT
                     !.calls = Append(@, [NoCall EXCEPT !.api = "tts",
                                                        !.arg = req[w].reply_text,
                                                        !.opt = DefaultLang]),
                     !.wrote = @ \cup t.wrote,
                     !.mp3_path = t.path,
                     !.pc = "nova_finally"]
         IN  /\ disk' = disk \cup t.wrote
             /\ req' = [req EXCEPT ![w] =
                  IF t.ok THEN [r EXCEPT !.pending = FileResp(t.path, t.name)]
                  ELSE [r EXCEPT !.failed = "tts", !.pending = NovaExcept(r)]]
    /\ uuid' = uuid + 1
    /\ UNCHANGED apiKey

\* lines 176-181: best-effort removal, then the pending response goes out
NovaFinally(w) ==
    /\ req[w].pc = "nova_finally"
    /\ \E rm \in RmOutcomes :
         IF CleanupTarget(req[w]) \in disk
         THEN /\ disk' = OsRemove(disk, CleanupTarget(req[w]), rm)
              /\ req' = [req EXCEPT ![w] =
                   Done([@ EXCEPT !.rmFailed = (rm # "ok")], @.pending)]
         ELSE /\ disk' = disk
              /\ req' = [req EXCEPT ![w] = Done(@, @.pending)]
    /\ UNCHANGED <<apiKey, uuid>>

(***************************************************************************)
(* GET /                                                                   *)
(***************************************************************************)
\* lines 183-185
Home(w) ==
    /\ Free(w)
    /\ req[w].ep # "home"
    /\ req' = [req EXCEPT ![w] =
         Done([Idle EXCEPT !.ep = "home"],
              [NoResp EXCEPT !.kind = "text", !.status = 200,
                             !.detail = "Nova-Core server (minimal) is running."])]
    /\ UNCHANGED <<apiKey, disk, uuid>>

Next ==
    \E w \in Workers :
        \/ SttUpload(w)
        \/ SttKeyCheck(w)
        \/ SttTranscribe(w)
        \/ ChatReceive(w)
        \/ ChatCall(w)
        \/ TtsReceive(w)
        \/ TtsSynth(w)
        \/ NovaUpload(w)
        \/ NovaKeyCheck(w)
        \/ NovaTranscribe(w)
        \/ NovaChat(w)
        \/ NovaSynth(w)
        \/ NovaFinally(w)
        \/ Home(w)

Spec == Init /\ [][Next]_vars

(***************************************************************************)
(* Properties.                                                             *)
(***************************************************************************)
Ended(w) == req[w].pc = "done"

Saved(w) == req[w].ep \in {"stt", "nova"} /\ req[w].audio_path # NoFile

NoKey == ~Truthy(apiKey)

\* C1 as stated: after any /stt or /nova response of the handler, the saved
\* upload is not on disk.
C1_Original ==
    \A w \in Workers :
        (Ended(w) /\ Saved(w) /\ req[w].resp.kind # "unhandled")
            => req[w].audio_path \notin disk

\* C1 amended: once a /stt or /nova request that saved its upload has ended,
\* the upload is not on disk, on every exit path, unless the operating system
\* refused its removal.
C1_Amended ==
    \A w \in Workers :
        (Ended(w) /\ Saved(w) /\ ~req[w].rmFailed) => req[w].audio_path \notin disk

C1_Witness ==
    \E w \in Workers :
        /\ Ended(w) /\ Saved(w) /\ req[w].ep = "nova" /\ req[w].failed = "chat"
        /\ ~req[w].rmFailed /\ req[w].audio_path \notin disk

\* C2 as stated: without a credential every /stt, /chat and /nova request is
\* answered 500 no_api_key.
C2_Original ==
    \A w \in Workers :
        (Ended(w) /\ NoKey /\ req[w].ep \in {"stt", "chat", "nova"})
            => (req[w].resp.status = 500 /\ req[w].resp.error = "no_api_key")

\* C2 amended: without a credential, every /chat request whose body is a JSON
\* object with a text other than "", and every /stt or /nova request whose
\* upload was saved, is answered 500 no_api_key, unless in /stt or /nova the
\* removal of the upload was refused and its OSError left the handler.
C2_Amended ==
    \A w \in Workers :
        (Ended(w) /\ NoKey) =>
            /\ (req[w].ep = "chat" /\ req[w].body.raw = "dict"
                    /\ req[w].body.text \notin {Absent, EmptyStr})
                 => (req[w].resp.kind = "json" /\ req[w].resp.status = 500
                        /\ req[w].resp.error = "no_api_key")
            /\ Saved(w)
                 => \/ (req[w].resp.kind = "json" /\ req[w].resp.status = 500
                           /\ req[w].resp.error = "no_api_key")
                    \/ (req[w].rmFailed /\ req[w].resp.kind = "unhandled")

C2_Witness ==
    \E w \in Workers :
        /\ Ended(w) /\ NoKey /\ req[w].ep = "chat"
        /\ req[w].body.text = PyStr(<<"h", "i">>)
        /\ req[w].resp.error = "no_api_key"

\* C3: every request in which an upload, provider, synthesis or file-removal
\* error occurred ends with a response built by the handler (no exception
\* leaves it), a JSON error unless the only failure was the removal.
C3_Claim ==
    \A w \in Workers :
        (Ended(w) /\ (req[w].upfail # "" \/ req[w].failed # "none" \/ req[w].rmFailed)) =>
            /\ req[w].resp.kind \in {"json", "file"}
            /\ (req[w].upfail # "" \/ req[w].failed # "none") =>
                 (req[w].resp.kind = "json" /\ req[w].resp.status \in {400, 500})

\* C4: in /nova a failed transcription, chat or synthesis stage yields 500
\* pipeline_failed carrying no transcript, reply, audio body or header.
C4_Theorem ==
    \A w \in Workers :
        (Ended(w) /\ req[w].ep = "nova" /\ req[w].failed # "none") =>
            /\ req[w].resp.kind = "json"
            /\ req[w].resp.status = 500
            /\ req[w].resp.error = "pipeline_failed"
            /\ req[w].resp.text = Absent
            /\ req[w].resp.reply = Absent
            /\ req[w].resp.audio = NoFile
            /\ req[w].resp.header = NoFile

C4_Witness ==
    \E w \in Workers :
        /\ Ended(w) /\ req[w].ep = "nova" /\ req[w].failed = "tts"
        /\ Truthy(req[w].user_text) /\ Truthy(req[w].reply_text)
        /\ req[w].resp.error = "pipeline_failed"

\* the transcript a provider response holds: its text if it has one, else its
\* transcript if it has one, else "" (an empty field counts as none)
Transcript(resp) ==
    IF resp.text \notin {Absent, EmptyStr} THEN resp.text
    ELSE IF resp.transcript \notin {Absent, EmptyStr} THEN resp.transcript
    ELSE EmptyStr

\* C5: a 200 response of /stt carries the provider's text if present, else
\* its transcript if present, else "", and always a string, whether the
\* provider response is a mapping or an object with attributes.
C5_Claim ==
    \A w \in Workers :
        (Ended(w) /\ req[w].ep = "stt" /\ req[w].resp.status = 200) =>
            /\ req[w].resp.text.t = "str"
            /\ req[w].resp.text = Transcript(req[w].stt_resp)

\* C6: a /chat request whose body is missing, unparseable, or JSON without a
\* text field or with text "" gets 400 no_text and no provider call.
C6_Claim ==
    \A w \in Workers :
        (Ended(w) /\ req[w].ep = "chat"
              /\ (req[w].body.raw \in {"missing", "invalid"}
                    \/ req[w].body.text \in {Absent, EmptyStr})) =>
            /\ req[w].resp.status = 400
            /\ req[w].resp.error = "no_text"
            /\ req[w].calls = <<>>

NovaOrder == <<"stt", "chat", "tts">>

\* C7: the external calls of a /nova request are a prefix of transcription,
\* chat, synthesis; chat follows a returned transcription and gets the
\* transcript (also an empty one); synthesis follows a returned chat and gets
\* its trimmed reply; a 200 response follows all three.
C7_Theorem ==
    \A w \in Workers :
        req[w].ep = "nova" =>
            /\ Len(req[w].calls) <= 3
            /\ \A i \in 1..Len(req[w].calls) : req[w].calls[i].api = NovaOrder[i]
            /\ Len(req[w].calls) >= 2 =>
                 /\ req[w].stt_resp \in SttResps
                 /\ req[w].calls[2].arg = Transcript(req[w].stt_resp)
            /\ Len(req[w].calls) >= 3 =>
                 /\ req[w].reply_text.t = "str"
                 /\ req[w].calls[3].arg = req[w].reply_text
            /\ (Ended(w) /\ req[w].resp.status = 200) =>
                 (Len(req[w].calls) = 3 /\ req[w].failed = "none")

C7_Witness ==
    \E w \in Workers :
        /\ Ended(w) /\ req[w].ep = "nova" /\ req[w].resp.status = 200
        /\ Len(req[w].calls) = 3
        /\ req[w].calls[2].arg = EmptyStr

\* C8: every call of the Synthesis Writer has a non-empty text.
C8_Claim ==
    \A w \in Workers :
        \A i \in 1..Len(req[w].calls) :
            req[w].calls[i].api = "tts" => Truthy(req[w].calls[i].arg)

\* C9: no step removes a synthesized file from disk, and the file a request
\* synthesized is on disk when the request has ended.
C9_Theorem ==
    [][/\ \A f \in disk : IsMp3(f) => f \in disk'
       /\ \A w \in Workers :
            (req'[w].pc = "done" /\ req'[w].mp3_path # NoFile) => req'[w].mp3_path \in disk']_vars

C9_Witness ==
    \E w \in Workers :
        /\ Ended(w) /\ req[w].ep = "nova" /\ req[w].resp.kind = "file"
        /\ req[w].mp3_path \in disk
        /\ req[w].audio_path \notin disk
        /\ \E f \in disk : IsMp3(f) /\ f # req[w].mp3_path

ValidationErrors == {"No file field in request", "Empty filename", "Extension not allowed"}

\* C10: an upload rejected for a missing field, an empty filename or its
\* extension has written no file and made no provider call; and without a
\* credential /stt, /chat and /nova make no provider call.
C10_Theorem ==
    \A w \in Workers :
        /\ req[w].upfail \in ValidationErrors => (req[w].wrote = {} /\ req[w].calls = <<>>)
        /\ (NoKey /\ req[w].ep \in {"stt", "chat", "nova"}) => req[w].calls = <<>>

C10_Witness ==
    \E w \in Workers :
        /\ Ended(w) /\ NoKey /\ req[w].ep = "nova"
        /\ req[w].upfail = "Empty filename"
        /\ req[w].resp.error = "upload_failed"

====
